---------------------------- MODULE Spec2Model ----------------------------
(***************************************************************************)
(* A model of the livefs-editor edit session: EditContext (context.py),    *)
(* the actions built on it (actions.py) and the driver main (__main__.py). *)
(*                                                                         *)
(* Every external command (mount, umount, losetup, mksquashfs, ...) is run *)
(* with check=True, so each may either succeed or raise                    *)
(* CalledProcessError; the model draws that outcome with \E.               *)
(*                                                                         *)
(* Init is the state right after EditContext.__init__ has returned inside  *)
(* main (line 71), before the action arguments are parsed.  (main passes   *)
(* arch_emulator= there, a keyword __init__ at context.py:59 does not      *)
(* take; the model follows main from a constructed context on.)            *)
(***************************************************************************)
EXTENDS Integers, Sequences, FiniteSets, TLC

\* ------------------------------------------------------------------ bounds
MaxActions == 2      \* number of action calls main is given
MaxDevs == 2         \* number of nodes glob(f'{device}*') yields
MaxFaults == 1       \* number of calls that raise in one run of main

\* ----------------------------------------------------------- small helpers
Reverse(s) == [i \in 1..Len(s) |-> s[Len(s) + 1 - i]]

Range(s) == {s[i] : i \in 1..Len(s)}

IsPrefix(s, t) == Len(s) <= Len(t) /\ \A i \in 1..Len(s) : s[i] = t[i]

\* list.remove(x): drops the first occurrence of x
RECURSIVE Remove(_, _)
Remove(s, x) ==
    IF s = <<>> THEN <<>>
    ELSE IF Head(s) = x THEN Tail(s)
    ELSE <<Head(s)>> \o Remove(Tail(s), x)

\* ------------------------------------------------------------- the workspace
\* A mountpoint is <<directory, name, relative path below it>>.
OldIso == <<"old", "iso", "">>
NewIso == <<"new", "iso", "">>
Rootfs == <<"", "rootfs", "">>
NewInitrd == <<"new", "initrd", "">>
Trial == <<".tmp", "trial", "">>
DestMount == <<".tmp", "dest", "">>

OldSquash(name) == <<"old", name, "">>
NewSquash(name) == <<"new", name, "">>

\* The layer names of the image, lowest first.
Layers == <<"a", "a.b">>

LayerSet == Range(Layers)

\* the relative paths add_sys_mounts mounts on, in mount order; the last one
\* stands for the /sys submounts findmnt reports
SysRel == <<"dev", "dev/pts", "proc", "sys">>

SysMounts(ov) == [i \in 1..Len(SysRel) |-> <<ov[1], ov[2], SysRel[i]>>]

Overlays == {NewIso, Rootfs, NewInitrd} \cup {NewSquash(n) : n \in LayerSet}

\* every mountpoint below m in the mount tree (m included)
Under(m) == {m} \cup
    (IF m[3] = "" THEN {<<m[1], m[2], r>> : r \in Range(SysRel)}
     ELSE IF m[3] = "dev" THEN {<<m[1], m[2], "dev/pts">>}
     ELSE {})

\* entries of an overlay's upper directory
ResolvConf == <<"etc", "resolv.conf">>
ResolvTmp == <<"etc", "resolv.conf.tmp">>
Data == <<"data", "">>
BootCfg == <<"boot", "cfg">>

\* OverlayMountpoint.unchanged
unchanged(up) == up = {}

\* the functions under @cached
CacheKeys == {"setup_rootfs", "unpack_initrd", "get_layerfs_path",
              "get_squash_names"}

VARIABLES
    pc,             \* where main is
    image,          \* the source image and the invocation
    nacts,          \* number of action calls made so far
    exc,            \* the exception travelling out of main's try block
    mounts,         \* ctxt._mounts
    loops,          \* ctxt._loops
    hooks,          \* ctxt._pre_repack_hooks
    squash_mounts,  \* ctxt._squash_mounts, as <<name, handle>> pairs
    cache,          \* ctxt._cache, as <<key, value>> pairs
    computed,       \* history: per memoized function, the runs of its body
    mounted,        \* mountpoints the kernel has mounted
    attached,       \* loop devices the kernel has attached
    exists,         \* mountpoint directories that exist
    rootExists,     \* the session root (ctxt.dir) exists
    upper,          \* per overlay: entries of its upper directory
    resolv,         \* per overlay: whose etc/resolv.conf the merged tree shows
    todo,           \* repack: the hooks its loop has still to invoke
    hookLog,        \* history: hooks invoked by repack, in order
    hookRaised,     \* history: index of the hook that raised, 0 if none
    reads,          \* history: what each mksquashfs of a layer hook read
    tdLog,          \* history: what teardown did, in order
    emitted,        \* history: image-emission commands invoked
    result,         \* what repack returned
    renamed,        \* main renamed dest over source
    wrote,          \* history: the overlays an action wrote through
    returns,        \* history: what mount_squash and edit_squashfs returned
    teardownInvoked, \* history: main called ctxt.teardown()
    fin,            \* the arguments of a function applied on its own
    fout            \* what that function returned

vars == <<pc, image, nacts, exc, mounts, loops, hooks, squash_mounts, cache,
          computed,
          mounted, attached, exists, rootExists, upper, resolv, todo,
          hookLog, hookRaised, reads, tdLog, emitted, result, renamed,
          wrote, returns, teardownInvoked, fin, fout>>

Images == [loc : {"none", "cmdline", "initrd"},
           fstype : {"iso9660", "vfat"},
           dest : {"devnull", "other", "inplace"}]

\* EditContext.__init__
Init ==
    /\ pc = "parse"
    /\ image \in Images
    /\ nacts = 0
    /\ exc = "none"
    /\ mounts = <<>>
    /\ loops = <<>>
    /\ hooks = <<>>
    /\ squash_mounts = {}
    /\ cache = {}
    /\ computed = [k \in CacheKeys |-> 0]
    /\ mounted = {}
    /\ attached = {}
    /\ exists = {}
    /\ rootExists = TRUE
    /\ upper = [o \in Overlays |-> {}]
    /\ resolv = [o \in Overlays |-> "orig"]
    /\ todo = <<>>
    /\ hookLog = <<>>
    /\ hookRaised = 0
    /\ reads = {}
    /\ tdLog = <<>>
    /\ emitted = {}
    /\ result = "unset"
    /\ renamed = FALSE
    /\ wrote = {}
    /\ returns = <<>>
    /\ teardownInvoked = FALSE
    /\ fin = <<>>
    /\ fout = <<>>


\* ------------------------------------------------- the session as a value
\* Handlers call each other, so each is written as a function from session
\* state to session state.  S.err is the exception being raised ("none" while
\* the handler is still running); every step is skipped once S.err is set.
\* S.failAt is the number of the fallible step that fails (0: none does).
Cur(failAt) ==
    [mounts |-> mounts, loops |-> loops, hooks |-> hooks,
     squash_mounts |-> squash_mounts, cache |-> cache,
     computed |-> computed, mounted |-> mounted,
     attached |-> attached, exists |-> exists, upper |-> upper,
     resolv |-> resolv, reads |-> reads, emitted |-> emitted,
     wrote |-> wrote, returns |-> returns, err |-> "none", steps |-> 0,
     failAt |-> failAt, ret |-> 0]

Ok(S) == S.err = "none"

\* one fallible step: raises kind when it is the step chosen to fail
Step(S, kind) ==
    IF ~Ok(S) THEN S
    ELSE IF S.steps + 1 = S.failAt
         THEN [S EXCEPT !.steps = @ + 1, !.err = kind]
         ELSE [S EXCEPT !.steps = @ + 1]

\* EditContext.run with check=True: subprocess.CalledProcessError on failure
run(S) == Step(S, "cpe")

\* a filesystem call that can raise OSError
oscall(S) == Step(S, "other")

\* EditContext.add_loop
add_loop(S, dev) ==
    LET S1 == run(S)       \* losetup --show --find --partscan
        S2 == IF Ok(S1)
              THEN [S1 EXCEPT !.loops = Append(@, dev),
                              !.attached = @ \cup {dev}]
              ELSE S1
    IN run(S2)             \* udevadm settle

\* the Mountpoint object add_mount creates for its n-th registry entry
Handle(mp, n) == <<mp, n>>

\* EditContext.add_mount; S.ret is the Mountpoint object returned
add_mount(S, mp) ==
    IF ~Ok(S) THEN S
    ELSE LET S1 == [S EXCEPT !.exists = @ \cup {mp}]   \* os.makedirs
             S2 == run(S1)                              \* mount
         IN IF Ok(S2)
            THEN [S2 EXCEPT !.mounts = Append(@, mp),
                            !.mounted = @ \cup {mp},
                            !.ret = Handle(mp, Len(S.mounts) + 1)]
            ELSE S2

umount_keep(S, mp) ==
    IF ~Ok(S) THEN S
    ELSE LET S2 == run(S)
         IN IF Ok(S2) THEN [S2 EXCEPT !.mounted = @ \ {mp}] ELSE S2

\* EditContext.umount
umount(S, mp) ==
    IF ~Ok(S) THEN S
    ELSE IF mp \notin Range(S.mounts)
         THEN [S EXCEPT !.err = "other"]                \* ValueError
         ELSE LET S1 == [S EXCEPT !.mounts = Remove(@, mp)]
                  S2 == run(S1)                         \* umount
              IN IF Ok(S2) THEN [S2 EXCEPT !.mounted = @ \ {mp}] ELSE S2

\* EditContext.add_overlay: the upper directory is a fresh tmpdir
add_overlay(S, mp) == add_mount(S, mp)

\* EditContext.add_pre_repack_hook
add_pre_repack_hook(S, hook) ==
    IF ~Ok(S) THEN S ELSE [S EXCEPT !.hooks = Append(@, hook)]

RECURSIVE AddMounts(_, _)
AddMounts(S, mps) ==
    IF mps = <<>> THEN S ELSE AddMounts(add_mount(S, Head(mps)), Tail(mps))

RECURSIVE Umounts(_, _)
Umounts(S, mps) ==
    IF mps = <<>> THEN S ELSE Umounts(umount(S, Head(mps)), Tail(mps))

SysHook(ov) == [kind |-> "sys", ov |-> ov]
SquashHook(ov) == [kind |-> "squash", ov |-> ov]
RootfsHook == [kind |-> "rootfs", ov |-> Rootfs]
InitrdHook == [kind |-> "initrd", ov |-> NewInitrd]

HookSet == {SysHook(o) : o \in Overlays} \cup {SquashHook(o) : o \in Overlays}
               \cup {RootfsHook, InitrdHook}

\* EditContext.add_sys_mounts
add_sys_mounts(S, ov) ==
    LET sm == SysMounts(ov)
        S1 == AddMounts(S, SubSeq(sm, 1, 3))     \* devtmpfs, devpts, proc
        S2 == run(S1)                            \* get_sysfs_mounts: findmnt
        S3 == AddMounts(S2, SubSeq(sm, 4, Len(sm)))
        S4 == oscall(S3)                         \* os.rename(resolv_conf, .tmp)
        S5 == IF Ok(S4)                          \* shutil.copy
              THEN [S4 EXCEPT !.upper[ov] = @ \cup {ResolvConf, ResolvTmp},
                              !.resolv[ov] = "host"]
              ELSE S4
    IN add_pre_repack_hook(S5, SysHook(ov))

\* a value returned to a caller
Returned(fn, arg, val, sys, pseudo) ==
    [fn |-> fn, arg |-> arg, val |-> val, sys |-> sys, pseudo |-> pseudo]

\* self._squash_mounts[name]
SquashHandles(S, name) == {e[2] : e \in {d \in S.squash_mounts : d[1] = name}}

mount_squash_nodedupe(S, name) ==
    IF ~Ok(S) THEN S
    ELSE LET S1 == add_mount(S, OldSquash(name))
         IN IF Ok(S1)
            THEN [S1 EXCEPT
                     !.squash_mounts = @ \cup {<<name, S1.ret>>},
                     !.returns = Append(@, Returned("mount_squash", name,
                                                    S1.ret, FALSE, FALSE))]
            ELSE S1

\* EditContext.mount_squash; S.ret is the Mountpoint object returned
mount_squash(S, name) ==
    IF ~Ok(S) THEN S
    ELSE IF SquashHandles(S, name) # {}
         THEN LET h == CHOOSE x \in SquashHandles(S, name) : TRUE
              IN [S EXCEPT !.ret = h,
                           !.returns = Append(@, Returned("mount_squash", name,
                                                          h, FALSE, FALSE))]
    ELSE LET S1 == add_mount(S, OldSquash(name))
         IN IF Ok(S1)
            THEN [S1 EXCEPT
                     !.squash_mounts = @ \cup {<<name, S1.ret>>},
                     !.returns = Append(@, Returned("mount_squash", name,
                                                    S1.ret, FALSE, FALSE))]
            ELSE S1

\* return target, at the end of edit_squashfs
edit_squashfs_return(S, name, sys) ==
    IF ~Ok(S) THEN S
    ELSE LET target == NewSquash(name)
         IN [S EXCEPT !.returns =
                 Append(@, Returned("edit_squashfs", name, Handle(target, 0), sys,
                                    Range(SysMounts(target)) \subseteq S.mounted))]

edit_squashfs_again(S, name, sys) ==
    LET target == NewSquash(name)
        S1 == mount_squash(S, name)
        S2 == add_overlay(S1, target)
        S3 == add_pre_repack_hook(S2, SquashHook(target))
        S4 == IF sys THEN add_sys_mounts(S3, target) ELSE S3
    IN edit_squashfs_return(S4, name, sys)

\* EditContext.edit_squashfs
edit_squashfs(S, name, sys) ==
    LET target == NewSquash(name)
        S1 == mount_squash(S, name)
    IN IF ~Ok(S1) THEN S1
       ELSE IF target \in S1.exists              \* os.path.exists(target)
            THEN edit_squashfs_return(S1, name, sys)
       ELSE LET S2 == add_overlay(S1, target)
                S3 == add_pre_repack_hook(S2, SquashHook(target))
                S4 == IF sys THEN add_sys_mounts(S3, target) ELSE S3
            IN edit_squashfs_return(S4, name, sys)

\* the object the n-th run of the body of key returned
CacheValue(key, n) == Handle(<<"cache", key, "">>, n)

\* ctxt._cache[key]
Cached(S, key) == {e[2] : e \in {d \in S.cache : d[1] = key}}

\* impl returns r
cached_return(S, key, r) ==
    [S EXCEPT !.ret = r,
              !.returns = Append(@, Returned(key, "", r, FALSE, FALSE))]

cached_recompute(S, key, body) ==
    IF ~Ok(S) THEN S
    ELSE LET B == [body EXCEPT !.computed[key] = @ + 1]
             r == CacheValue(key, B.computed[key])
         IN IF Ok(B)
            THEN cached_return([B EXCEPT !.cache = @ \cup {<<key, r>>}], key, r)
            ELSE B

\* the @cached decorator; body is the session after func(ctxt, **kw)
cached(S, key, body) ==
    IF ~Ok(S) THEN S
    ELSE IF Cached(S, key) # {}
         THEN cached_return(S, key, CHOOSE r \in Cached(S, key) : TRUE)
    ELSE LET B == [body EXCEPT !.computed[key] = @ + 1]
             r == CacheValue(key, B.computed[key])
         IN IF Ok(B)
            THEN cached_return([B EXCEPT !.cache = @ \cup {<<key, r>>}], key, r)
            ELSE B

\* unpack_initrd
unpack_initrd(S) ==
    cached(S, "unpack_initrd",
           LET S1 == run(S)                      \* unmkinitramfs
               S2 == add_overlay(S1, NewInitrd)
           IN add_pre_repack_hook(S2, InitrdHook))

\* get_layerfs_path
get_layerfs_path(S) ==
    cached(S, "get_layerfs_path",
           IF image.loc = "cmdline" THEN S       \* get_cmdline_arg found it
           ELSE unpack_initrd(S))

\* get_squash_names
get_squash_names(S) == cached(S, "get_squash_names", get_layerfs_path(S))

RECURSIVE MountSquashes(_, _)
MountSquashes(S, names) ==
    IF names = <<>> THEN S
    ELSE MountSquashes(mount_squash(S, Head(names)), Tail(names))

setup_rootfs_hook_first(S) ==
    cached(S, "setup_rootfs",
           LET S0 == add_pre_repack_hook(S, RootfsHook)
               S1 == get_squash_names(S0)
               S2 == MountSquashes(S1, Layers)
               S3 == add_overlay(S2, Rootfs)
               S4 == add_sys_mounts(S3, Rootfs)
           IN get_layerfs_path(S4))

\* setup_rootfs
setup_rootfs(S) ==
    cached(S, "setup_rootfs",
           LET S1 == get_squash_names(S)
               S2 == MountSquashes(S1, Layers)   \* lowers
               S3 == add_overlay(S2, Rootfs)
               S4 == add_sys_mounts(S3, Rootfs)
               S5 == get_layerfs_path(S4)
           IN add_pre_repack_hook(S5, RootfsHook))

\* a write an action makes through the overlay ov
write(S, ov, entry) ==
    IF ~Ok(S) THEN S
    ELSE [S EXCEPT !.upper[ov] = @ \cup {entry},
                   !.resolv[ov] = IF entry = ResolvConf THEN "user" ELSE @,
                   !.wrote = @ \cup {ov}]

\* add_cmdline_arg: rewrites the boot configuration files under new/iso
add_cmdline_arg(S) == write(S, NewIso, BootCfg)

\* cp with dest = $LAYERS[i]/<entry>: interpret_path, then shutil.copy
cp(S, i, entry) ==
    LET S1 == get_squash_names(S)
        S2 == edit_squashfs(S1, Layers[i], i = 1)
    IN write(S2, NewSquash(Layers[i]), entry)

\* shell with a command that writes a file below new/initrd: bash fails when
\* the directory is not there
shell(S) ==
    IF ~Ok(S) THEN S
    ELSE IF NewInitrd \notin S.mounted THEN [S EXCEPT !.err = "cpe"]
    ELSE write(run(S), NewInitrd, Data)

\* add_autoinstall_config
add_autoinstall_config(S) ==
    LET S1 == setup_rootfs(S)
        S2 == write(S1, Rootfs, Data)
    IN add_cmdline_arg(S2)


\* what a trial mount of one node can find
DevOutcome == {"nomount", "nomarker", "live"}

DevLists == UNION {[1..n -> DevOutcome] : n \in 0..MaxDevs}

RECURSIVE find_livefs_any(_, _, _)
find_livefs_any(S, devs, i) ==
    IF ~Ok(S) THEN S
    ELSE IF i > Len(devs)
         THEN [S EXCEPT !.err = "other"]
    ELSE IF devs[i] = "nomount"
         THEN find_livefs_any([S EXCEPT !.exists = @ \cup {Trial}], devs, i + 1)
    ELSE LET S1 == [S EXCEPT !.exists = @ \cup {Trial},
                             !.mounts = Append(@, Trial),
                             !.mounted = @ \cup {Trial}]
             S2 == umount(S1, Trial)
         IN IF ~Ok(S2) THEN S2 ELSE [S2 EXCEPT !.ret = i]

\* EditContext.find_livefs, from the i-th node on; S.ret is the node returned
RECURSIVE find_livefs_from(_, _, _)
find_livefs_from(S, devs, i) ==
    IF ~Ok(S) THEN S
    ELSE IF i > Len(devs)
         THEN [S EXCEPT !.err = "other"]     \* could not find live filesystem
    ELSE IF devs[i] = "nomount"              \* the trial mount raised: continue
         THEN find_livefs_from([S EXCEPT !.exists = @ \cup {Trial}], devs, i + 1)
    ELSE LET S1 == [S EXCEPT !.exists = @ \cup {Trial},
                             !.mounts = Append(@, Trial),
                             !.mounted = @ \cup {Trial}]
             S2 == umount(S1, Trial)         \* finally: self.umount
         IN IF ~Ok(S2) THEN S2
            ELSE IF devs[i] = "live" THEN [S2 EXCEPT !.ret = i]
            ELSE find_livefs_from(S2, devs, i + 1)

find_livefs(S, devs) == find_livefs_from(S, devs, 1)

\* EditContext.mount_source
mount_source(S, devs) ==
    LET S1 == add_loop(S, "loop0")
        S2 == find_livefs(S1, devs)
        S3 == add_mount(S2, OldIso)
        S4 == run(S3)                        \* findmnt -no fstype
    IN add_overlay(S4, NewIso)

\* ---------------------------------------------------------------- the hooks
\* a write into the outer tree made by a hook
hookwrite(S, ov, entry) ==
    IF ~Ok(S) THEN S ELSE [S EXCEPT !.upper[ov] = @ \cup {entry}]

\* a pseudo-filesystem add_sys_mounts mounted on the overlay is still mounted
PseudoMounted(S, ov) == Range(SysMounts(ov)) \cap S.mounted # {}

\* the host's resolv.conf is the etc/resolv.conf of the overlay's upper
\* directory, and so of its merged tree
HostResolv(S, ov) == ResolvConf \in S.upper[ov] /\ S.resolv[ov] = "host"

\* mksquashfs of a layer hook on the merged tree of its overlay (the mount
\* target) or on the overlay's upper directory: records what that tree holds.
\* The pseudo-filesystems are mounted on the merged tree only.
mksquashfs(S, hook, tree) ==
    IF ~Ok(S) THEN S
    ELSE run([S EXCEPT !.reads = @ \cup
                 {[hook |-> hook, tree |-> tree,
                   host |-> HostResolv(S, hook.ov),
                   pseudo |-> tree = "merged" /\ PseudoMounted(S, hook.ov)]}])

\* add_sys_mounts._pre_repack
sys_pre_repack(S, ov) ==
    LET S1 == Umounts(S, Reverse(SysMounts(ov)))
        S2 == oscall(S1)                     \* os.rename(.tmp, resolv_conf)
    IN IF Ok(S2)
       THEN [S2 EXCEPT !.upper[ov] = (@ \ {ResolvTmp}) \cup {ResolvConf},
                       !.resolv[ov] = "orig"]
       ELSE S2

\* edit_squashfs._pre_repack
squash_pre_repack(S, ov) ==
    LET S1 == IF ResolvConf \in S.upper[ov]  \* the scrub; OSError is swallowed
              THEN [S EXCEPT !.upper[ov] = @ \ {ResolvConf},
                             !.resolv[ov] = "orig"]
              ELSE S
    IN IF unchanged(S1.upper[ov]) THEN S1
       ELSE LET S2 == hookwrite(S1, NewIso, <<"casper", ov[2]>>)  \* os.unlink
            IN mksquashfs(S2, SquashHook(ov), "merged")

\* setup_rootfs._pre_repack
rootfs_pre_repack(S) ==
    IF unchanged(S.upper[Rootfs]) THEN S
    ELSE LET S1 == mksquashfs(S, RootfsHook, "upper")
             S2 == hookwrite(S1, NewIso, <<"casper", "custom">>)
         IN IF image.loc = "cmdline" THEN hookwrite(S2, NewIso, BootCfg)
            ELSE IF image.loc = "initrd"
                 THEN hookwrite(unpack_initrd(S2), NewInitrd, <<"conf", "layer">>)
            ELSE S2

initrd_pre_repack_always(S) == hookwrite(S, NewIso, <<"casper", "initrd">>)

\* unpack_initrd._pre_repack_single / _pre_repack_multi
initrd_pre_repack(S) ==
    IF unchanged(S.upper[NewInitrd]) THEN S
    ELSE hookwrite(S, NewIso, <<"casper", "initrd">>)

\* hook()
call_hook(S, hook) ==
    CASE hook.kind = "sys" -> sys_pre_repack(S, hook.ov)
      [] hook.kind = "squash" -> squash_pre_repack(S, hook.ov)
      [] hook.kind = "rootfs" -> rootfs_pre_repack(S)
      [] hook.kind = "initrd" -> initrd_pre_repack(S)

\* main, lines 61-69: the file repack is told to write, None for /dev/null
destpath ==
    CASE image.dest = "devnull" -> "None"
      [] image.dest = "inplace" -> "source.new"
      [] image.dest = "other" -> "dest"

\* an image-emission command and the file it writes
emit(S, cmd) ==
    IF ~Ok(S) THEN S
    ELSE run([S EXCEPT !.emitted = @ \cup {[cmd |-> cmd, dest |-> destpath]}])

\* EditContext.repack_iso: xorriso -report_el_torito, then xorriso -as mkisofs
repack_iso(S) == emit(run(S), "xorriso")

\* EditContext.repack_generic
repack_generic(S, devs) ==
    LET S1 == emit(S, "cp")
        S2 == add_loop(S1, "loop1")
        S3 == find_livefs(S2, devs)
        S4 == add_mount(S3, DestMount)
    IN emit(S4, "rsync")


\* ------------------------------------------------------------------- main
\* the session state a handler leaves behind
Apply(S) ==
    /\ mounts' = S.mounts
    /\ loops' = S.loops
    /\ hooks' = S.hooks
    /\ squash_mounts' = S.squash_mounts
    /\ cache' = S.cache
    /\ computed' = S.computed
    /\ mounted' = S.mounted
    /\ attached' = S.attached
    /\ exists' = S.exists
    /\ upper' = S.upper
    /\ resolv' = S.resolv
    /\ reads' = S.reads
    /\ emitted' = S.emitted
    /\ wrote' = S.wrote
    /\ returns' = S.returns

SessionVars == <<mounts, loops, hooks, squash_mounts, cache, computed, mounted,
                 attached,
                 exists, upper, resolv, reads, emitted, wrote, returns>>

RepackVars == <<todo, hookLog, hookRaised, result, renamed>>

TeardownVars == <<tdLog, rootExists, teardownInvoked>>

\* main, lines 73-86: the action arguments parse
parse_ok ==
    /\ pc = "parse"
    /\ pc' = "mount_source"
    /\ UNCHANGED <<image, fin, fout, nacts, exc, SessionVars, RepackVars, TeardownVars>>

\* main, lines 79 and 84-86: KeyError or sys.exit(1), outside the try block
parse_fail ==
    /\ pc = "parse"
    /\ pc' = "exited"
    /\ exc' = "parse"
    /\ UNCHANGED <<image, fin, fout, nacts, SessionVars, RepackVars, TeardownVars>>

\* the steps of a handler that may be chosen to fail: any of those it takes
\* when none fails, none once main has seen MaxFaults calls raise
Faults == IF exc = "none" THEN 0 ELSE 1

Steps(S) == IF Faults < MaxFaults THEN S.steps ELSE 0

InTry_swallow(S, next) ==
    /\ Apply(S)
    /\ exc' = S.err
    /\ pc' = next

\* one call made inside main's try block: on an exception control goes to
\* the finally clause
InTry(S, next) ==
    /\ Apply(S)
    /\ exc' = S.err
    /\ pc' = IF Ok(S) THEN next ELSE "teardown"

\* main, line 89
main_mount_source ==
    /\ pc = "mount_source"
    /\ \E devs \in DevLists :
           \E f \in 0..Steps(mount_source(Cur(0), devs)) :
               InTry(mount_source(Cur(f), devs), "actions")
    /\ UNCHANGED <<image, fin, fout, nacts, RepackVars, TeardownVars>>

\* main, lines 91-92: func(ctxt, **kw) for the next call
Call(S) ==
    /\ pc = "actions"
    /\ nacts < MaxActions
    /\ nacts' = nacts + 1
    /\ InTry(S, "actions")
    /\ UNCHANGED <<image, fin, fout, RepackVars, TeardownVars>>

act_edit_squashfs ==
    \E n \in LayerSet, sys \in BOOLEAN :
        \E f \in 0..Steps(edit_squashfs(Cur(0), n, sys)) :
            Call(edit_squashfs(Cur(f), n, sys))

act_setup_rootfs ==
    \E f \in 0..Steps(setup_rootfs(Cur(0))) : Call(setup_rootfs(Cur(f)))

act_unpack_initrd ==
    \E f \in 0..Steps(unpack_initrd(Cur(0))) : Call(unpack_initrd(Cur(f)))

act_cp ==
    \E i \in 1..Len(Layers), entry \in {Data, ResolvConf} :
        \E f \in 0..Steps(cp(Cur(0), i, entry)) : Call(cp(Cur(f), i, entry))

act_add_cmdline_arg == Call(add_cmdline_arg(Cur(0)))

act_shell == \E f \in 0..Steps(shell(Cur(0))) : Call(shell(Cur(f)))

act_add_autoinstall_config ==
    \E f \in 0..Steps(add_autoinstall_config(Cur(0))) :
        Call(add_autoinstall_config(Cur(f)))

RepackOrder_forward(n) == [i \in 1..n |-> i]

RepackOrder_skip(n) == [i \in 1..(n - 1) |-> n + 1 - i]

\* reversed(self._pre_repack_hooks), as indices into the list of n hooks
RepackOrder(n) == [i \in 1..n |-> n + 1 - i]

\* main, line 94: the calls are done; EditContext.repack starts its loop
calls_done ==
    /\ pc = "actions"
    /\ pc' = IF image.dest = "devnull" THEN "teardown" ELSE "hooks"
    /\ todo' = IF image.dest = "devnull" THEN todo ELSE RepackOrder(Len(hooks))
    /\ UNCHANGED <<image, fin, fout, nacts, exc, SessionVars, hookLog, hookRaised, result,
                   renamed, TeardownVars>>

\* EditContext.repack, lines 302-303: one turn of the loop over the hooks
repack_hook ==
    /\ pc = "hooks"
    /\ todo # <<>>
    /\ \E f \in 0..Steps(call_hook(Cur(0), hooks[Head(todo)])) :
           LET S == call_hook(Cur(f), hooks[Head(todo)])
           IN /\ InTry(S, "hooks")
              /\ hookRaised' = IF Ok(S) THEN hookRaised ELSE Head(todo)
    /\ hookLog' = Append(hookLog, Head(todo))
    /\ todo' = Tail(todo)
    /\ UNCHANGED <<image, fin, fout, nacts, result, renamed, TeardownVars>>

emit_image_generic(S, devs) == repack_generic(S, devs)

\* EditContext.repack, lines 307-310
emit_image(S, devs) ==
    IF image.fstype = "iso9660" THEN repack_iso(S) ELSE repack_generic(S, devs)

\* EditContext.repack, lines 304-311
repack_emit ==
    /\ pc = "hooks"
    /\ todo = <<>>
    /\ IF unchanged(upper[NewIso])
       THEN /\ result' = "false"
            /\ pc' = "repacked"
            /\ UNCHANGED <<exc, SessionVars>>
       ELSE \E devs \in DevLists :
                \E f \in 0..Steps(emit_image(Cur(0), devs)) :
                    LET S == emit_image(Cur(f), devs)
                    IN /\ InTry(S, "repacked")
                       /\ result' = IF Ok(S) THEN "true" ELSE result
    /\ UNCHANGED <<image, fin, fout, nacts, todo, hookLog, hookRaised, renamed,
                   TeardownVars>>

inplace_only == image.dest = "inplace"

\* main, line 96: changed and inplace
changed_and_inplace == result = "true" /\ image.dest = "inplace"

\* main, lines 96-97: os.rename(destpath, sourcepath) replaces the source or
\* raises OSError and leaves it as it was
main_rename ==
    /\ pc = "repacked"
    /\ IF changed_and_inplace
       THEN \E f \in 0..Steps(oscall(Cur(0))) :
                LET S == oscall(Cur(f))
                IN /\ renamed' = Ok(S)
                   /\ exc' = S.err
       ELSE UNCHANGED <<renamed, exc>>
    /\ pc' = "teardown"
    /\ UNCHANGED <<image, fin, fout, nacts, SessionVars, todo, hookLog, hookRaised,
                   result, TeardownVars>>

\* ---------------------------------------------------------------- teardown
TdEvent(op, what, ok) == [op |-> op, what |-> what, ok |-> ok]

\* the part of the session teardown works on
TdCur(failAt) ==
    [mounted |-> mounted, attached |-> attached, tdLog |-> tdLog,
     rootExists |-> rootExists, err |-> "none", steps |-> 0, failAt |-> failAt]

tdlog(S, op, what) ==
    [S EXCEPT !.tdLog = Append(@, TdEvent(op, what, S.err = "none"))]

\* EditContext.teardown, lines 264-269: the loop over the mounts
RECURSIVE teardown_mounts(_, _)
teardown_mounts(S, ms) ==
    IF ~Ok(S) \/ ms = <<>> THEN S
    ELSE LET m == Head(ms)
             \* mount --make-rprivate, umount -R and, if that fails, umount -l:
             \* raises when make-rprivate or umount -l fails
             S1 == run(S)
             S2 == IF Ok(S1) THEN [S1 EXCEPT !.mounted = @ \ Under(m)] ELSE S1
         IN teardown_mounts(tdlog(S2, "umount", m), Tail(ms))

\* EditContext.teardown, line 270: shutil.rmtree(self.dir) raises when a
\* filesystem is still mounted below the session root
teardown_rmtree(S) ==
    IF ~Ok(S) THEN S
    ELSE tdlog(IF S.mounted = {} THEN [S EXCEPT !.rootExists = FALSE]
               ELSE [S EXCEPT !.err = "other"], "rmtree", <<>>)

\* EditContext.teardown, lines 271-272: the loop over the loop devices
RECURSIVE teardown_loops(_, _)
teardown_loops(S, ls) ==
    IF ~Ok(S) \/ ls = <<>> THEN S
    ELSE LET l == Head(ls)
             S1 == run(S)                    \* losetup --detach
             S2 == IF Ok(S1) THEN [S1 EXCEPT !.attached = @ \ {l}] ELSE S1
         IN teardown_loops(tdlog(S2, "detach", <<l>>), Tail(ls))

teardown_forward(S) ==
    LET S1 == teardown_mounts(S, mounts)
        S2 == teardown_rmtree(S1)
    IN teardown_loops(S2, Reverse(loops))

\* EditContext.teardown
teardown(S) ==
    LET S1 == teardown_mounts(S, Reverse(mounts))
        S2 == teardown_rmtree(S1)
    IN teardown_loops(S2, Reverse(loops))

\* main, lines 105-106: the finally clause, then the process exits
main_finally ==
    /\ pc = "teardown"
    /\ teardownInvoked' = TRUE
    /\ \E f \in 0..Steps(teardown(TdCur(0))) :
           LET S == teardown(TdCur(f))
           IN /\ mounted' = S.mounted
              /\ attached' = S.attached
              /\ tdLog' = S.tdLog
              /\ rootExists' = S.rootExists
              /\ exc' = IF Ok(S) THEN exc ELSE S.err
    /\ pc' = "exited"
    /\ UNCHANGED <<image, fin, fout, nacts, mounts, loops, hooks, squash_mounts, cache,
                   computed,
                   exists, upper, resolv, reads, emitted, wrote, returns,
                   RepackVars>>

Next ==
    \/ parse_ok
    \/ parse_fail
    \/ main_mount_source
    \/ act_edit_squashfs
    \/ act_setup_rootfs
    \/ act_unpack_initrd
    \/ act_cp
    \/ act_add_cmdline_arg
    \/ act_shell
    \/ act_add_autoinstall_config
    \/ calls_done
    \/ repack_hook
    \/ repack_emit
    \/ main_rename
    \/ main_finally

Spec == Init /\ [][Next]_vars


\* ------------------------------------------------- strings and layer names
\* A string is a sequence of one-character strings.
MaxParts == 3        \* number of dotted components of a layerfs-path
MaxFiles == 2        \* number of files glob yields in casper/
MaxLowers == 2       \* number of elements of the list add_overlay is given
MaxArgv == 4         \* number of action arguments on the command line
MaxBytes == 1        \* bytes a command writes to a stream
MaxSide == 1         \* number of characters on either side of a '---'

\* None
None == <<"None">>

Ext == <<".", "s", "q", "u", "a", "s", "h", "f", "s">>

Custom == <<".", "c", "u", "s", "t", "o", "m">>

CasperDir == <<"o", "l", "d", "/", "i", "s", "o", "/", "c", "a", "s", "p", "e", "r", "/">>

\* ord() of the characters layer names are made of here
CodePoints == ("." :> 46) @@ ("a" :> 97) @@ ("b" :> 98) @@ ("c" :> 99)

ord(c) == CodePoints[c]

chr(n) == CHOOSE c \in DOMAIN CodePoints : CodePoints[c] = n

\* str.rfind, counting from 1; 0 when c does not occur
rfind(s, c) ==
    LET I == {i \in 1..Len(s) : s[i] = c}
    IN IF I = {} THEN 0 ELSE CHOOSE i \in I : \A j \in I : j <= i

\* str.find, counting from 1; 0 when c does not occur
find(s, c) ==
    LET I == {i \in 1..Len(s) : s[i] = c}
    IN IF I = {} THEN 0 ELSE CHOOSE i \in I : \A j \in I : i <= j

\* os.path.splitext(p)[0]
splitext(p) ==
    LET sepIndex == rfind(p, "/")
        dotIndex == rfind(p, ".")
    IN IF /\ dotIndex > sepIndex
          /\ \E i \in (sepIndex + 1)..(dotIndex - 1) : p[i] # "."
       THEN SubSeq(p, 1, dotIndex - 1)
       ELSE p

\* os.path.basename
basename(p) == SubSeq(p, rfind(p, "/") + 1, Len(p))

\* str.split(c)
RECURSIVE split(_, _)
split(s, c) ==
    IF find(s, c) = 0 THEN <<s>>
    ELSE <<SubSeq(s, 1, find(s, c) - 1)>>
             \o split(SubSeq(s, find(s, c) + 1, Len(s)), c)

\* c.join(parts)
RECURSIVE join(_, _)
join(parts, c) ==
    IF parts = <<>> THEN <<>>
    ELSE IF Len(parts) = 1 THEN parts[1]
    ELSE parts[1] \o <<c>> \o join(Tail(parts), c)

basenames_whole(layerfs_path, globbed) ==
    IF layerfs_path # None /\ layerfs_path # <<>>
    THEN LET parts == split(layerfs_path, ".")
         IN [i \in 1..Len(parts) |-> join(SubSeq(parts, 1, i), ".")]
    ELSE [i \in 1..Len(globbed) |-> splitext(basename(globbed[i]))]

\* get_squash_names, lines 97-107: the names for a layerfs-path (or None) and
\* for what glob yields, in the order it yields it
basenames(layerfs_path, globbed) ==
    IF layerfs_path # None /\ layerfs_path # <<>>
    THEN LET parts == split(splitext(layerfs_path), ".")
         IN [i \in 1..Len(parts) |-> join(SubSeq(parts, 1, i), ".")]
    ELSE [i \in 1..Len(globbed) |-> splitext(basename(globbed[i]))]

\* setup_rootfs, lines 119-124
new_squash_name(layerfs_path, squash_names) ==
    LET last_squash == squash_names[Len(squash_names)]
    IN IF layerfs_path # None THEN last_squash \o Custom
       ELSE <<chr(ord(last_squash[1]) + 1)>> \o Tail(last_squash)

\* ------------------------------------------------------------ lower layers
\* what add_overlay can be given as a lower: a path (str), a Mountpoint, an
\* OverlayMountpoint with its lowers and upperdir, or a list of these
Lower(kind, path, lowers, upperdir) ==
    [kind |-> kind, path |-> path, lowers |-> lowers, upperdir |-> upperdir]

StrLower(path) == Lower("str", path, <<>>, <<>>)

MountLower(mountpoint) == Lower("Mountpoint", mountpoint, <<>>, <<>>)

OverlayLower(lowers, upperdir) ==
    Lower("OverlayMountpoint", <<"m">>, lowers, upperdir)

ListLower(lowers) == Lower("list", <<>>, lowers, <<>>)

RECURSIVE lowerdir_for_forward(_)
lowerdir_for_forward(lower) ==
    CASE lower.kind = "str" -> lower.path
      [] lower.kind = "Mountpoint" -> lower.path
      [] lower.kind = "OverlayMountpoint" ->
             lowerdir_for_forward(
                 ListLower(lower.lowers \o <<StrLower(lower.upperdir)>>))
      [] lower.kind = "list" ->
             join([i \in 1..Len(lower.lowers) |->
                      lowerdir_for_forward(lower.lowers[i])], ":")

\* add_overlay.lowerdir_for
RECURSIVE lowerdir_for(_)
lowerdir_for(lower) ==
    CASE lower.kind = "str" -> lower.path
      [] lower.kind = "Mountpoint" -> lower.path
      [] lower.kind = "OverlayMountpoint" ->
             lowerdir_for(ListLower(lower.lowers \o <<StrLower(lower.upperdir)>>))
      [] lower.kind = "list" ->
             join(Reverse([i \in 1..Len(lower.lowers) |->
                              lowerdir_for(lower.lowers[i])]), ":")

\* add_overlay, lines 182-198: the lowerdir option for the argument lowers
lowerdir(lowers) ==
    lowerdir_for(IF lowers.kind = "list" THEN lowers ELSE ListLower(<<lowers>>))

\* ---------------------------------------------------- boot configuration
\* the characters str.rstrip, str.strip and shlex.split take as white space,
\* of those that occur in the lines built here
Whitespace == {" ", "\n"}

\* str.rstrip
RECURSIVE rstrip(_)
rstrip(s) ==
    IF s # <<>> /\ s[Len(s)] \in Whitespace
    THEN rstrip(SubSeq(s, 1, Len(s) - 1))
    ELSE s

\* str.lstrip
RECURSIVE lstrip(_)
lstrip(s) ==
    IF s # <<>> /\ s[1] \in Whitespace THEN lstrip(Tail(s)) ELSE s

\* str.strip
strip(s) == lstrip(rstrip(s))

\* str.startswith
startswith(s, prefix) ==
    Len(prefix) <= Len(s) /\ SubSeq(s, 1, Len(prefix)) = prefix

\* str.find(sub, i) for a string sub, counting from 1; 0 when sub does not
\* occur at or after i
RECURSIVE findstr(_, _, _)
findstr(s, sub, i) ==
    IF i + Len(sub) - 1 > Len(s) THEN 0
    ELSE IF SubSeq(s, i, i + Len(sub) - 1) = sub THEN i
    ELSE findstr(s, sub, i + 1)

\* '---'
Delim == <<"-", "-", "-">>

\* 'layerfs-path'
LayerfsKey == <<"l", "a", "y", "e", "r", "f", "s", "-", "p", "a", "t", "h">>

\* 'LAYERFS_PATH='
LayerfsConfKey ==
    <<"L", "A", "Y", "E", "R", "F", "S", "_", "P", "A", "T", "H", "=">>

\* the files cmdline_config_files looks for, in its order: boot/grub/grub.cfg,
\* isolinux/txt.cfg, boot/parmfile.ubuntu
CmdlineConfigs == <<"boot/grub/grub.cfg", "isolinux/txt.cfg", "boot/parmfile.ubuntu">>

\* a file of the workspace: whether it exists, and its lines
File(lines) == [exists |-> TRUE, lines |-> lines]

NoFile == [exists |-> FALSE, lines |-> <<>>]

\* cmdline_config_files: the positions of the files that exist, in order
cmdline_config_files(files) ==
    SelectSeq([i \in 1..Len(files) |-> i], LAMBDA i : files[i].exists)

add_cmdline_arg_line_after(line, arg, persist) ==
    IF findstr(line, Delim, 1) = 0 THEN line
    ELSE IF persist THEN rstrip(line) \o <<" ">> \o arg \o <<"\n">>
    ELSE LET k == findstr(line, Delim, 1)
             before == SubSeq(line, 1, k - 1)
             after == SubSeq(line, k + Len(Delim), Len(line))
         IN rstrip(before) \o <<" ">> \o Delim \o <<" ">> \o arg \o after

\* add_cmdline_arg, lines 336-341: what is written for one line
add_cmdline_arg_line(line, arg, persist) ==
    IF findstr(line, Delim, 1) = 0 THEN line
    ELSE IF persist THEN rstrip(line) \o <<" ">> \o arg \o <<"\n">>
    ELSE LET k == findstr(line, Delim, 1)
             before == SubSeq(line, 1, k - 1)
             after == SubSeq(line, k + Len(Delim), Len(line))
         IN rstrip(before) \o <<" ">> \o arg \o <<" ">> \o Delim \o after

\* add_cmdline_arg: every existing file is rewritten line by line
add_cmdline_arg_files(files, arg, persist) ==
    LET paths == cmdline_config_files(files)
    IN [i \in 1..Len(files) |->
           IF \E n \in 1..Len(paths) : paths[n] = i
           THEN File([j \in 1..Len(files[i].lines) |->
                         add_cmdline_arg_line(files[i].lines[j], arg, persist)])
           ELSE files[i]]

\* shlex.split of a line without quotes, escapes or comments: its white-space
\* separated words
RECURSIVE shlex_split(_)
shlex_split(s) ==
    IF s = <<>> THEN <<>>
    ELSE IF s[1] \in Whitespace THEN shlex_split(Tail(s))
    ELSE LET W == {i \in 1..Len(s) : s[i] \in Whitespace}
             n == IF W = {} THEN Len(s) + 1
                  ELSE CHOOSE i \in W : \A j \in W : i <= j
         IN <<SubSeq(s, 1, n - 1)>> \o shlex_split(SubSeq(s, n, Len(s)))

RECURSIVE concat(_)
concat(ss) == IF ss = <<>> THEN <<>> ELSE Head(ss) \o concat(Tail(ss))

\* get_cmdline_arg: the value of the first word key=value of the lines with
\* '---', files, lines and words taken in order; None when there is none
get_cmdline_arg(files, key) ==
    LET paths == cmdline_config_files(files)
        lines == concat([n \in 1..Len(paths) |-> files[paths[n]].lines])
        marked == SelectSeq(lines, LAMBDA line : findstr(line, Delim, 1) # 0)
        words == concat([n \in 1..Len(marked) |-> shlex_split(marked[n])])
        found == SelectSeq(words, LAMBDA word : startswith(word, key \o <<"=">>))
    IN IF found = <<>> THEN None
       ELSE SubSeq(found[1], Len(key) + 2, Len(found[1]))

\* get_layerfs_path without its cache: the value and where it was found.
\* conf is conf/conf.d/default-layer.conf of the unpacked initrd
layerfs_path_loc(files, conf) ==
    LET cmdline_val == get_cmdline_arg(files, LayerfsKey)
        stripped == [j \in 1..Len(conf.lines) |-> strip(conf.lines[j])]
        found == SelectSeq(stripped, LAMBDA line : startswith(line, LayerfsConfKey))
    IN IF cmdline_val # None THEN <<cmdline_val, "CMDLINE">>
       ELSE IF conf.exists /\ found # <<>>
       THEN <<SubSeq(found[1], Len(LayerfsConfKey) + 1, Len(found[1])), "INITRD">>
       ELSE <<None, "NONE">>

\* setup_rootfs._pre_repack, lines 132-144, once the new layer is written: the
\* boot configuration and default-layer.conf it leaves
update_pointer(files, conf, layerfs_loc, name) ==
    IF layerfs_loc = "CMDLINE"
    THEN [files |-> add_cmdline_arg_files(
                        files, LayerfsKey \o <<"=">> \o name \o Ext, FALSE),
          conf |-> conf]
    ELSE IF layerfs_loc = "INITRD"
    THEN [files |-> files,
          conf |-> File(<<LayerfsConfKey \o name \o Ext \o <<"\n">>>>)]
    ELSE [files |-> files, conf |-> conf]


\* ------------------------------------------------------- the command line
\* a parameter of an action, after ctxt: its name and its annotation
Param(name, annotation) == [name |-> name, annotation |-> annotation]

\* the dict ACTIONS, by the name register_action files each action under, with what
\* inspect.Signature.from_callable gives for it: cp(source, dest), rm(path),
\* edit_squashfs(squash_name, add_sys_mounts: bool), install_debs(debs: List[str])
ActionTable ==
    (<<"c", "p">> :> <<Param("source", "_empty"), Param("dest", "_empty")>>)
    @@ (<<"r", "m">> :> <<Param("path", "_empty")>>)
    @@ (<<"e", "d", "i", "t", "-", "s", "q", "u", "a", "s", "h", "f", "s">> :>
            <<Param("squash_name", "_empty"), Param("add_sys_mounts", "bool")>>)
    @@ (<<"i", "n", "s", "t", "a", "l", "l", "-", "d", "e", "b", "s">> :>
            <<Param("debs", "List[str]")>>)

\* str.lower (named str_lower here), on the letters that occur in arguments here
str_lower(v) == [i \in 1..Len(v) |-> IF v[i] = "Y" THEN "y" ELSE v[i]]

\* cli._conv
conv(ann, v) ==
    IF ann = "_empty" THEN [kind |-> "str", val |-> v]
    ELSE IF ann = "bool"
    THEN [kind |-> "bool",
          val |-> IF str_lower(v) \in {<<"o", "n">>, <<"y", "e", "s">>,
                                   <<"t", "r", "u", "e">>}
                  THEN <<"True">> ELSE <<"False">>]
    ELSE [kind |-> "str", val |-> v]

\* a keyword argument: its name and its value
Kw(name, value) == [name |-> name, value |-> value]

\* name in kw
InKw(kw, name) == \E n \in 1..Len(kw) : kw[n].name = name

\* kw.setdefault(name, []).append(a)
setdefault_append(kw, name, a) ==
    IF InKw(kw, name)
    THEN [n \in 1..Len(kw) |->
             IF kw[n].name = name
             THEN Kw(name, [kind |-> "list", val |-> Append(kw[n].value.val, a)])
             ELSE kw[n]]
    ELSE Append(kw, Kw(name, [kind |-> "list", val |-> <<a>>]))

\* cli.args_for_func, its loop from the i-th raw argument on; exc is the
\* exception raised, "none" when kw is returned
RECURSIVE args_for_func_from(_, _, _, _)
args_for_func_from(param_list, raw_args, i, kw) ==
    LET last_arg_name ==
            IF param_list # <<>>
                   /\ param_list[Len(param_list)].annotation = "List[str]"
            THEN param_list[Len(param_list)].name
            ELSE "None"
    IN IF i > Len(raw_args) THEN [exc |-> "none", kw |-> kw]
       ELSE IF i > Len(param_list)
       THEN IF last_arg_name = "None"
            THEN [exc |-> "ArgException", kw |-> <<>>]   \* too many arguments
            ELSE args_for_func_from(
                     param_list, raw_args, i + 1,
                     setdefault_append(kw, last_arg_name, raw_args[i]))
       ELSE LET param == param_list[i]
            IN IF param.name = last_arg_name
               THEN args_for_func_from(
                        param_list, raw_args, i + 1,
                        Append(kw, Kw(param.name, [kind |-> "list",
                                                   val |-> <<raw_args[i]>>])))
               ELSE IF InKw(kw, param.name)
               THEN [exc |-> "ArgException", kw |-> <<>>]  \* multiple values
               ELSE args_for_func_from(
                        param_list, raw_args, i + 1,
                        Append(kw, Kw(param.name,
                                      conv(param.annotation, raw_args[i]))))

args_for_func(func, raw_args) == args_for_func_from(ActionTable[func], raw_args, 1, <<>>)

\* what parse has come to: the calls so far, the action being read and its
\* arguments ("None" before the first action), the exception raised
Parsing(calls, func, func_args, raised) ==
    [calls |-> calls, func |-> func, func_args |-> func_args, exc |-> raised]

dispatch_prepend(P) ==
    IF P.exc # "none" \/ P.func = None THEN P
    ELSE LET r == args_for_func(P.func, P.func_args)
         IN IF r.exc # "none" THEN [P EXCEPT !.exc = r.exc]
            ELSE [P EXCEPT !.calls = <<[func |-> P.func, kw |-> r.kw]>> \o @,
                           !.func_args = <<>>]

\* parse.dispatch
dispatch(P) ==
    IF P.exc # "none" \/ P.func = None THEN P
    ELSE LET r == args_for_func(P.func, P.func_args)
         IN IF r.exc # "none" THEN [P EXCEPT !.exc = r.exc]
            ELSE [P EXCEPT !.calls = Append(@, [func |-> P.func, kw |-> r.kw]),
                           !.func_args = <<>>]

\* cli.parse, its loop from the i-th raw argument on
RECURSIVE parse_from(_, _, _)
parse_from(P, raw_args, i) ==
    IF P.exc # "none" THEN P
    ELSE IF i > Len(raw_args) THEN dispatch(P)
    ELSE LET a == raw_args[i]
         IN IF startswith(a, <<"-", "-">>)
            THEN LET D == dispatch(P)
                     name == SubSeq(a, 3, Len(a))
                 IN IF D.exc # "none" THEN D
                    ELSE IF name \notin DOMAIN ActionTable   \* unknown action
                    THEN [D EXCEPT !.exc = "ArgException"]
                    ELSE parse_from([D EXCEPT !.func = name], raw_args, i + 1)
            ELSE IF P.func = None                       \* no action specified
            THEN [P EXCEPT !.exc = "ArgException"]
            ELSE parse_from([P EXCEPT !.func_args = Append(@, a)], raw_args,
                            i + 1)

\* cli.parse
parse(raw_args) == parse_from(Parsing(<<>>, None, <<>>, "none"), raw_args, 1)

\* ------------------------------------------------------ the subprocess runner
\* what the child process does: its exit code and the bytes it writes to its
\* standard output and to its standard error
Proc(returncode, out, err) == [returncode |-> returncode, out |-> out, err |-> err]

\* the keyword arguments of run that matter here: stdout=PIPE, stderr=PIPE
Pipes(stdout, stderr) == [stdout |-> stdout, stderr |-> stderr]

\* what run comes to: the exception raised ("none" when it returns), the
\* CompletedProcess (or what CalledProcessError carries), the lines logged
Ran(raised, completed, log) == [exc |-> raised, cp |-> completed, log |-> log]

\* subprocess.run(cmd, check=check, **kw): a stream that is not captured is
\* None in the CompletedProcess
subprocess_run(check, kw, proc) ==
    LET completed == [returncode |-> proc.returncode,
                      stdout |-> IF kw.stdout THEN proc.out ELSE None,
                      stderr |-> IF kw.stderr THEN proc.err ELSE None]
    IN Ran(IF check /\ proc.returncode # 0 THEN "CalledProcessError" ELSE "none",
           completed, <<>>)

\* a line of the debug log
Msg(text, output, error) == [text |-> text, output |-> output, error |-> error]

\* the second message of run in debug mode, lines 83-88: len(cp.stderr) is
\* taken for the output as well as for the error
exit_code_msg(completed) ==
    Msg("exit code",
        IF completed.stdout # None THEN <<Len(completed.stderr)>> ELSE <<>>,
        IF completed.stderr # None THEN <<Len(completed.stderr)>> ELSE <<>>)

\* EditContext.run
EditContext_run(debug, check, kw, proc) ==
    LET R == subprocess_run(check, kw, proc)
        running == Msg("running", <<>>, <<>>)
    IN IF ~debug THEN R
       ELSE IF R.exc # "none" THEN [R EXCEPT !.log = <<running>>]
       ELSE IF R.cp.stdout # None /\ R.cp.stderr = None
       THEN [R EXCEPT !.exc = "TypeError",      \* len(None), line 85
                      !.log = <<running>>]
       ELSE [R EXCEPT !.log = <<running, exit_code_msg(R.cp)>>]

\* ------------------------------------------- the functions on their own
\* the components a layerfs-path is made of
Components == {<<"a">>, <<"b">>, <<"a", "b">>, <<"b", "a">>}

PartLists == UNION {[1..n -> Components] : n \in 1..MaxParts}

\* a1.a2...an
RECURSIVE Dotted(_)
Dotted(parts) ==
    IF Len(parts) = 1 THEN parts[1]
    ELSE Dotted(SubSeq(parts, 1, Len(parts) - 1)) \o <<".">>
             \o parts[Len(parts)]

\* the layer files casper/ can hold
GlobNames == Components \cup {<<"a", ".", "b">>}

\* what glob can yield: the files of a directory, each once, in any order
Globbed ==
    UNION {{g \in [1..n -> GlobNames] :
               \A i, j \in 1..n : g[i] = g[j] => i = j} : n \in 1..MaxFiles}

GlobPaths(g) == [i \in 1..Len(g) |-> CasperDir \o g[i] \o Ext]

Args(fn, path, glob, files, conf, arg, persist) ==
    [fn |-> fn, path |-> path, glob |-> glob, files |-> files, conf |-> conf,
     arg |-> arg, persist |-> persist]

NamesArgs ==
    {Args("get_squash_names", Dotted(parts) \o Ext, <<>>, <<>>, NoFile,
              <<>>, FALSE) :
         parts \in PartLists}
    \cup {Args("get_squash_names", None, GlobPaths(g), <<>>, NoFile, <<>>,
                   FALSE) :
              g \in Globbed}

TopNameArgs ==
    {Args("setup_rootfs", a.path, a.glob, <<>>, NoFile, <<>>, FALSE) : a \in NamesArgs}

\* the characters boot-config lines are made of
LineChars == {"q", " ", "-"}

\* what stands on either side of a '---'
Side == UNION {[1..n -> LineChars] : n \in 0..MaxSide}

\* the text of a line, with and without '---'
Bodies == {before \o Delim \o after : before, after \in Side} \cup Side

\* the lines of a boot-config file; the last may lack its newline
Lines == {body \o nl : body \in Bodies, nl \in {<<>>, <<"\n">>}} \ {<<>>}

Plain == <<"q", " ", "q", "\n">>

Companion == <<"q", " ", " ", "-", "-", "-", " ", "q", "\n">>

\* the contents of a file that holds line
Contents(line) ==
    {<<line>>, <<Plain, line>>}
    \cup IF line[Len(line)] = "\n" THEN {<<line, Companion>>} ELSE {}

\* the boot-config files of a workspace: each absent or holding line
ConfigFiles(line) ==
    [1..Len(CmdlineConfigs) ->
        {NoFile} \cup {File(lines) : lines \in Contents(line)}]

CmdlineArgs == {<<"x">>, <<"x", "=", "q">>}

AddArgArgs ==
    {Args("add_cmdline_arg", None, <<>>, files, NoFile, arg, persist) :
         files \in UNION {ConfigFiles(line) : line \in Lines}
                   \ {[i \in 1..Len(CmdlineConfigs) |-> NoFile]},
         arg \in CmdlineArgs, persist \in BOOLEAN}
    \cup {Args("add_cmdline_arg", None, <<>>,
               [i \in 1..Len(CmdlineConfigs) |-> NoFile], NoFile, arg, persist) :
              arg \in CmdlineArgs, persist \in BOOLEAN}

\* the layerfs-path values a boot configuration points at
PointerPaths == {Dotted(parts) \o Ext : parts \in {<<<<"a">>>>, <<<<"a">>, <<"b">>>>}}

\* the kernel command lines for a pointer at path: the pointer before the
\* '---', after it, or not on the command line
BootLines(path) ==
    LET token == LayerfsKey \o <<"=">> \o path
    IN {<<"q", " ">> \o token \o <<" ">> \o Delim \o <<" ", "q", "\n">>,
        <<"q", " ">> \o Delim \o <<" ">> \o token \o <<"\n">>,
        <<"q", " ">> \o Delim \o <<" ", "q", "\n">>}

\* the workspaces the rootfs hook can find: grub.cfg and isolinux/txt.cfg
\* absent or holding a command line, default-layer.conf absent or holding the
\* pointer, casper/ holding a.squashfs
PointerArgs ==
    {Args("_pre_repack", None, GlobPaths(<<<<"a">>>>), <<grub, txt, NoFile>>,
          conf, <<>>, FALSE) :
         grub \in {NoFile} \cup UNION {{File(<<Plain, line>>) : line \in BootLines(q)} :
                                           q \in PointerPaths},
         txt \in {NoFile} \cup UNION {{File(<<line>>) : line \in BootLines(q)} :
                                          q \in PointerPaths},
         conf \in {NoFile} \cup {File(<<Plain, LayerfsConfKey \o q \o <<"\n">>>>) :
                                     q \in PointerPaths}}

\* the lowers add_overlay is given: paths and mountpoints, lists of them,
\* overlays on them, and lists of up to MaxLowers of all these
PlainLowers == {StrLower(<<"x">>), MountLower(<<"y">>), StrLower(<<"z">>)}

PlainLists == UNION {[1..n -> PlainLowers] : n \in 1..2}

NestedLowers ==
    PlainLowers \cup {ListLower(l) : l \in PlainLists}
        \cup {OverlayLower(l, <<"u">>) : l \in PlainLists}

OverlayArgs ==
    {[fn |-> "add_overlay", lowers |-> l] :
         l \in NestedLowers
               \cup {ListLower(ls) :
                         ls \in UNION {[1..n -> NestedLowers] : n \in 1..MaxLowers}}}

\* the words of a command line: action names, one of them unknown, and
\* arguments
Words ==
    {<<"-", "-", "c", "p">>, <<"-", "-", "r", "m">>,
     <<"-", "-", "e", "d", "i", "t", "-", "s", "q", "u", "a", "s", "h", "f", "s">>,
     <<"-", "-", "i", "n", "s", "t", "a", "l", "l", "-", "d", "e", "b", "s">>,
     <<"-", "-", "z", "z">>, <<"x">>, <<"Y", "e", "s">>}

ParseArgs ==
    {[fn |-> "parse", raw_args |-> w] :
         w \in UNION {[1..n -> Words] : n \in 0..MaxArgv}}

\* what a command writes to a stream: up to MaxBytes bytes
Bytes == UNION {[1..n -> {"b"}] : n \in 0..MaxBytes}

\* the calls of run: debug and check, the streams captured, what the child does
RunArgs ==
    {[fn |-> "run", debug |-> debug, check |-> check,
      kw |-> Pipes(stdout, stderr), proc |-> Proc(returncode, out, err)] :
         debug \in BOOLEAN, check \in BOOLEAN, stdout \in BOOLEAN,
         stderr \in BOOLEAN, returncode \in {0, 1}, out \in Bytes, err \in Bytes}

\* the registries find_livefs is entered with: mount_source calls it before
\* the first mount, repack_generic with the mounts of the session registered
Registries == {<<>>, <<OldIso, NewIso>>}

FindArgs ==
    {[fn |-> "find_livefs", devs |-> devs, mounts |-> reg] :
         devs \in DevLists, reg \in Registries}

\* the session find_livefs is entered with
Entry(a, failAt) ==
    [Cur(failAt) EXCEPT !.mounts = a.mounts, !.mounted = Range(a.mounts),
                        !.exists = Range(a.mounts)]

\* the calls of edit_squashfs, in a session that mount_source has set up
EditArgs ==
    {[fn |-> "edit_squashfs", name |-> n, sys |-> sys,
      mounts |-> <<OldIso, NewIso>>] : n \in LayerSet, sys \in BOOLEAN}

MainVars == <<image, nacts, exc, mounts, loops, hooks, squash_mounts, cache,
              computed, mounted, attached, exists, rootExists, upper, resolv,
              todo, hookLog, hookRaised, reads, tdLog, emitted, result, renamed,
              wrote, returns, teardownInvoked>>

\* a context on which no handler runs
Idle ==
    /\ image = [loc |-> "none", fstype |-> "iso9660", dest |-> "devnull"]
    /\ nacts = 0
    /\ exc = "none"
    /\ mounts = <<>>
    /\ loops = <<>>
    /\ hooks = <<>>
    /\ squash_mounts = {}
    /\ cache = {}
    /\ computed = [k \in CacheKeys |-> 0]
    /\ mounted = {}
    /\ attached = {}
    /\ exists = {}
    /\ rootExists = TRUE
    /\ upper = [o \in Overlays |-> {}]
    /\ resolv = [o \in Overlays |-> "orig"]
    /\ todo = <<>>
    /\ hookLog = <<>>
    /\ hookRaised = 0
    /\ reads = {}
    /\ tdLog = <<>>
    /\ emitted = {}
    /\ result = "unset"
    /\ renamed = FALSE
    /\ wrote = {}
    /\ returns = <<>>
    /\ teardownInvoked = FALSE

PureInit ==
    /\ Idle
    /\ pc = "call"
    /\ fout = <<>>
    /\ \/ fin \in NamesArgs
       \/ fin \in TopNameArgs
       \/ fin \in AddArgArgs
       \/ fin \in PointerArgs
       \/ fin \in FindArgs
       \/ fin \in OverlayArgs
       \/ fin \in ParseArgs
       \/ fin \in RunArgs
       \/ fin \in EditArgs

\* get_squash_names applied to fin
call_get_squash_names ==
    /\ pc = "call"
    /\ fin.fn = "get_squash_names"
    /\ fout' = basenames(fin.path, fin.glob)
    /\ pc' = "returned"
    /\ UNCHANGED <<fin, MainVars>>

\* setup_rootfs, lines 114-124, applied to fin
call_new_squash_name ==
    /\ pc = "call"
    /\ fin.fn = "setup_rootfs"
    /\ fout' = new_squash_name(fin.path, basenames(fin.path, fin.glob))
    /\ pc' = "returned"
    /\ UNCHANGED <<fin, MainVars>>

\* add_cmdline_arg applied to fin
call_add_cmdline_arg ==
    /\ pc = "call"
    /\ fin.fn = "add_cmdline_arg"
    /\ fout' = add_cmdline_arg_files(fin.files, fin.arg, fin.persist)
    /\ pc' = "returned"
    /\ UNCHANGED <<fin, MainVars>>

\* setup_rootfs and then its _pre_repack with a changed overlay, applied to
\* the workspace of fin: the pointer found, the name of the new layer, and the
\* files the hook leaves
call_pre_repack ==
    /\ pc = "call"
    /\ fin.fn = "_pre_repack"
    /\ LET found == layerfs_path_loc(fin.files, fin.conf)
           name == new_squash_name(found[1], basenames(found[1], fin.glob))
           left == update_pointer(fin.files, fin.conf, found[2], name)
       IN fout' = [layerfs_path |-> found[1], layerfs_loc |-> found[2],
                   name |-> name, files |-> left.files, conf |-> left.conf]
    /\ pc' = "returned"
    /\ UNCHANGED <<fin, MainVars>>

\* find_livefs applied to the nodes fin.devs; fout is the session it leaves,
\* with the node returned (ret) or the exception raised (err)
call_find_livefs ==
    /\ pc = "call"
    /\ fin.fn = "find_livefs"
    /\ \E f \in 0..find_livefs(Entry(fin, 0), fin.devs).steps :
           fout' = find_livefs(Entry(fin, f), fin.devs)
    /\ pc' = "returned"
    /\ UNCHANGED <<fin, MainVars>>

\* add_overlay applied to fin.lowers: the lowerdir it mounts with
call_add_overlay ==
    /\ pc = "call"
    /\ fin.fn = "add_overlay"
    /\ fout' = lowerdir(fin.lowers)
    /\ pc' = "returned"
    /\ UNCHANGED <<fin, MainVars>>

\* main, lines 82-86: cli.parse applied to the action arguments; fout holds
\* the calls it returned or the ArgException, and what main has done with them
call_parse ==
    /\ pc = "call"
    /\ fin.fn = "parse"
    /\ LET P == parse(fin.raw_args)
       IN fout' = [exc |-> P.exc, calls |-> P.calls, invoked |-> <<>>,
                   raisedAt |-> 0, repacked |-> FALSE]
    /\ pc' = "returned"
    /\ UNCHANGED <<fin, MainVars>>

\* main, lines 91-92: the next call is made, and returns or raises
main_call ==
    /\ pc = "returned"
    /\ fin.fn = "parse"
    /\ fout.exc = "none"
    /\ fout.raisedAt = 0
    /\ ~fout.repacked
    /\ Len(fout.invoked) < Len(fout.calls)
    /\ \E raises \in BOOLEAN :
           fout' = [fout EXCEPT
                       !.invoked = Append(@, fout.calls[Len(@) + 1]),
                       !.raisedAt = IF raises THEN Len(fout.invoked) + 1 ELSE 0]
    /\ UNCHANGED <<pc, fin, MainVars>>

\* main, lines 94-95: every call has returned, repack runs
main_repack ==
    /\ pc = "returned"
    /\ fin.fn = "parse"
    /\ fout.exc = "none"
    /\ fout.raisedAt = 0
    /\ ~fout.repacked
    /\ Len(fout.invoked) = Len(fout.calls)
    /\ fout' = [fout EXCEPT !.repacked = TRUE]
    /\ UNCHANGED <<pc, fin, MainVars>>

\* EditContext.run applied to fin
call_run ==
    /\ pc = "call"
    /\ fin.fn = "run"
    /\ fout' = EditContext_run(fin.debug, fin.check, fin.kw, fin.proc)
    /\ pc' = "returned"
    /\ UNCHANGED <<fin, MainVars>>

\* EditContext.edit_squashfs called for fin.name, and called again for the
\* same name by a caller that goes on after the first call returned or raised;
\* fout holds the session each call leaves (err: the exception it raised)
call_edit_squashfs ==
    /\ pc = "call"
    /\ fin.fn = "edit_squashfs"
    /\ \E f \in 0..edit_squashfs(Entry(fin, 0), fin.name, fin.sys).steps :
           LET first == edit_squashfs(Entry(fin, f), fin.name, fin.sys)
               again == edit_squashfs([first EXCEPT !.err = "none"],
                                      fin.name, fin.sys)
           IN fout' = [first |-> first, again |-> again]
    /\ pc' = "returned"
    /\ UNCHANGED <<fin, MainVars>>

PureNext ==
    \/ call_edit_squashfs
    \/ call_run
    \/ call_parse
    \/ main_call
    \/ main_repack
    \/ call_add_overlay
    \/ call_find_livefs
    \/ call_get_squash_names
    \/ call_new_squash_name
    \/ call_add_cmdline_arg
    \/ call_pre_repack

PureSpec == PureInit /\ [][PureNext]_vars


\* ------------------------------------------------------------- properties
\* repack has returned (True or False) to main
RepackReturned == result # "unset"

\* the hook invoked i-th by repack
Invoked(i) == hooks[hookLog[i]]

\* the layer-repack hooks: edit_squashfs._pre_repack, setup_rootfs._pre_repack
IsLayerHook(h) == h.kind \in {"squash", "rootfs"}

\* C1: repack invokes the hooks registered before it in strict reverse
\* registration order hn, ..., h1, and tests the outer overlay and emits an
\* image only after the last of them has returned.
C1_ReverseOrderThenEmit ==
    /\ IsPrefix(hookLog, [i \in 1..Len(hooks) |-> Len(hooks) + 1 - i])
    /\ (RepackReturned \/ emitted # {}) =>
           /\ Len(hookLog) = Len(hooks)
           /\ hookRaised = 0

C1_Witness ==
    /\ result = "true"
    /\ Len(hooks) >= 3
    /\ Len(hookLog) = Len(hooks)

\* C2 (as claimed): whenever an overlay has both a sys-mount teardown hook
\* and a layer-repack hook, repack runs the teardown hook of that overlay
\* before its layer-repack hook.
C2_TeardownBeforeLayerRepack ==
    \A i \in 1..Len(hookLog) :
        (IsLayerHook(Invoked(i)) /\ SysHook(Invoked(i).ov) \in Range(hooks)) =>
            \E j \in 1..(i - 1) : Invoked(j) = SysHook(Invoked(i).ov)

\* C3 (as claimed): for a sequence of actions that write nothing into the
\* outer overlay new/iso, repack returns False and no image is emitted at the
\* destination.  The sessions taken here are those whose actions write through
\* no overlay at all, so that no hook has a change of a layer, of the rootfs or
\* of the initrd to carry into new/iso either.
C3_NoWriteNoOutput ==
    (RepackReturned /\ wrote = {}) => (result = "false" /\ emitted = {})

\* C4 (as claimed): the tree a layer-repack hook hands to mksquashfs holds
\* neither the host's etc/resolv.conf nor a pseudo-filesystem that
\* add_sys_mounts mounted for chroot use.
C4_NoTransientLeak == \A r \in reads : ~r.host /\ ~r.pseudo

\* C5 (as claimed): on every exit path of main after the EditContext has been
\* created, teardown() is invoked before the process exits.
C5_TeardownOnEveryExit == pc = "exited" => teardownInvoked

\* the mounts teardown got to
TdReached == {tdLog[i].what : i \in {j \in 1..Len(tdLog) : tdLog[j].op = "umount"}}

\* C6 (as claimed): teardown attempts the unmount of every mount in the
\* registry, whatever failed for another mount.
C6_TeardownReachesEveryMount ==
    (pc = "exited" /\ teardownInvoked) => Range(mounts) \subseteq TdReached

\* C7 (as claimed): after teardown has been invoked the session root does not
\* exist and no loop device registered by add_loop is still attached.
C7_NothingLeftAfterTeardown ==
    (pc = "exited" /\ teardownInvoked) =>
        (~rootExists /\ Range(loops) \cap attached = {})

TdUmounts == SelectSeq(tdLog, LAMBDA e : e.op = "umount")

\* C8: teardown unmounts the registered mounts in strict reverse registration
\* order, deletes the session root only after the unmount of every registered
\* mount succeeded, and detaches loop devices only after the root is deleted.
C8_TeardownOrder ==
    /\ IsPrefix([i \in 1..Len(TdUmounts) |-> TdUmounts[i].what], Reverse(mounts))
    /\ \A i \in 1..Len(tdLog) :
           /\ tdLog[i].op = "rmtree" =>
                  \A m \in Range(mounts) :
                      \E j \in 1..(i - 1) : tdLog[j] = TdEvent("umount", m, TRUE)
           /\ tdLog[i].op = "detach" =>
                  \E j \in 1..(i - 1) : tdLog[j] = TdEvent("rmtree", <<>>, TRUE)

C8_Witness ==
    /\ pc = "exited"
    /\ Len(mounts) >= 3
    /\ ~rootExists
    /\ \E i \in 1..Len(tdLog) : tdLog[i] = TdEvent("detach", <<"loop0">>, TRUE)

\* C9: by the time repack returns without error, every hook registered during
\* the session has run exactly once.
C9_EveryHookOnce ==
    RepackReturned =>
        \A h \in 1..Len(hooks) :
            Cardinality({i \in 1..Len(hookLog) : hookLog[i] = h}) = 1

C9_Witness ==
    /\ RepackReturned
    /\ Len(hooks) >= 2
    /\ result = "false"

\* C10: if a pre-repack hook raises, no hook later in LIFO order runs, no
\* image-emission command is invoked, repack does not return True, the
\* in-place rename does not happen, and teardown still runs.
C10_HookFailureAbortsRepack ==
    hookRaised # 0 =>
        /\ hookLog[Len(hookLog)] = hookRaised
        /\ \A h \in 1..(hookRaised - 1) : h \notin Range(hookLog)
        /\ emitted = {}
        /\ result = "unset"
        /\ ~renamed
        /\ pc \in {"teardown", "exited"}
        /\ pc = "exited" => teardownInvoked

C10_Witness ==
    /\ hookRaised > 1
    /\ pc = "exited"
    /\ teardownInvoked
    /\ image.dest = "inplace"

\* how often x occurs in the sequence s
Count(s, x) == Cardinality({i \in 1..Len(s) : s[i] = x})

\* the values fn returned for arg so far
ReturnsOf(fn, arg) ==
    {returns[i].val : i \in {j \in 1..Len(returns) :
                                returns[j].fn = fn /\ returns[j].arg = arg}}

\* the number of times fn has returned for arg
CallsOf(fn, arg) ==
    Cardinality({j \in 1..Len(returns) :
                    returns[j].fn = fn /\ returns[j].arg = arg})

\* C11: for every squashfs name n, once mount_squash(n) has returned one or
\* more times the mount registry holds exactly one mount of old/<n>, and every
\* one of those calls returned the same handle.
C11_MountSquashOnce ==
    \A n \in LayerSet :
        CallsOf("mount_squash", n) >= 1 =>
            /\ Count(mounts, OldSquash(n)) = 1
            /\ Cardinality(ReturnsOf("mount_squash", n)) = 1

C11_Witness ==
    \E n \in LayerSet :
        /\ CallsOf("mount_squash", n) >= 2
        /\ Count(mounts, OldSquash(n)) = 1

\* C12: once edit_squashfs(n) has returned one or more times, every call
\* returned the same mountpoint path, the mount registry holds exactly one
\* entry for the overlay new/<n> and exactly one for the squash mount old/<n>,
\* and the layer-repack hook of n is registered exactly once.
C12_EditSquashfsIdempotent ==
    \A n \in LayerSet :
        CallsOf("edit_squashfs", n) >= 1 =>
            /\ Cardinality(ReturnsOf("edit_squashfs", n)) = 1
            /\ Count(mounts, NewSquash(n)) = 1
            /\ Count(mounts, OldSquash(n)) = 1
            /\ Count(hooks, SquashHook(NewSquash(n))) = 1

C12_Witness ==
    \E n \in LayerSet :
        /\ CallsOf("edit_squashfs", n) >= 2
        /\ Count(hooks, SquashHook(NewSquash(n))) = 1

\* C13 (as claimed): whenever edit_squashfs(name, add_sys_mounts=True) returns,
\* dev, dev/pts, proc and the /sys submounts are mounted under new/<name>.
C13_SysMountsWhenAsked ==
    \A i \in 1..Len(returns) :
        (returns[i].fn = "edit_squashfs" /\ returns[i].sys) => returns[i].pseudo

\* the hooks repack has invoked and that returned
HooksDone == {hooks[hookLog[i]] : i \in {j \in 1..Len(hookLog) : hookLog[j] # hookRaised}}

\* casper/<n>.squashfs of the outer tree was rewritten
Rewritten(ov) == <<"casper", ov[2]>> \in upper[NewIso]

\* C14 (as claimed): once the layer hook of edit_squashfs(n) has run, it has
\* rewritten casper/<n>.squashfs in the outer tree, by a mksquashfs of the
\* overlay mountpoint, if and only if an action wrote through the overlay
\* new/<n> (the resolv.conf swap of add_sys_mounts is not such a write).
C14_LayerRewrittenIffWritten ==
    \A h \in HooksDone :
        h.kind = "squash" =>
            /\ Rewritten(h.ov) <=> h.ov \in wrote
            /\ Rewritten(h.ov) =>
                   \E r \in reads : r.hook = h /\ r.tree = "merged"

\* C15: over any sequence of calls each memoized derivation is computed at
\* most once and every call returns the object the one computation produced;
\* setup_rootfs mounts one combined overlay and registers one rootfs hook,
\* unpack_initrd mounts one initrd overlay and registers one initrd hook.
C15_ComputedOnce ==
    /\ \A k \in CacheKeys :
           /\ computed[k] <= 1
           /\ Cardinality(ReturnsOf(k, "")) <= 1
    /\ Count(mounts, Rootfs) <= 1
    /\ Count(hooks, RootfsHook) <= 1
    /\ Count(mounts, NewInitrd) <= 1
    /\ Count(hooks, InitrdHook) <= 1

C15_Witness ==
    /\ \A k \in CacheKeys : computed[k] = 1
    /\ \A k \in CacheKeys \ {"get_squash_names"} : CallsOf(k, "") >= 2
    /\ Count(hooks, RootfsHook) = 1
    /\ Count(hooks, InitrdHook) = 1

\* fn has been applied to fin and has returned fout
Applied(fn) == pc = "returned" /\ fin.fn = fn

\* C16: for a layerfs-path a1.a2...an.squashfs get_squash_names returns the n
\* accumulated dotted prefixes a1, a1.a2, ..., a1.a2...an, in that order.
C16_DottedPrefixes ==
    (Applied("get_squash_names") /\ fin.path # None) =>
        \A parts \in PartLists :
            fin.path = Dotted(parts) \o Ext =>
                /\ Len(fout) = Len(parts)
                /\ \A i \in 1..Len(parts) : fout[i] = Dotted(SubSeq(parts, 1, i))

C16_Witness ==
    /\ Applied("get_squash_names")
    /\ fin.path # None
    /\ Len(fout) = 3
    /\ fout[3] = <<"a", "b", ".", "b", ".", "b", "a">>

\* s sorts before t in lexicographic order of code points
LexLess(s, t) ==
    \E k \in 1..(Len(t)) :
        /\ k <= Len(s) + 1
        /\ \A i \in 1..(k - 1) : s[i] = t[i]
        /\ k = Len(s) + 1 \/ ord(s[k]) < ord(t[k])

\* C17 (as claimed): with no layerfs-path configured get_squash_names returns
\* the basenames of the casper/*.squashfs files, extension stripped, in
\* lexicographic order, whatever order glob yields them in.
C17_GlobbedNamesSorted ==
    (Applied("get_squash_names") /\ fin.path = None) =>
        /\ Len(fout) = Len(fin.glob)
        /\ \A i \in 1..Len(fout) :
               \E j \in 1..Len(fin.glob) : fin.glob[j] = CasperDir \o fout[i] \o Ext
        /\ \A i \in 1..(Len(fout) - 1) : LexLess(fout[i], fout[i + 1])

\* the highest of the existing layer basenames
Highest(names) ==
    CHOOSE n \in Range(names) : \A m \in Range(names) : m = n \/ LexLess(m, n)

\* the layer basenames of the image fin describes
ExistingNames ==
    IF fin.path # None
    THEN CHOOSE names \in {[i \in 1..Len(parts) |-> Dotted(SubSeq(parts, 1, i))] :
              parts \in {q \in PartLists : fin.path = Dotted(q) \o Ext}} : TRUE
    ELSE [i \in 1..Len(fin.glob) |->
             SubSeq(fin.glob[i], Len(CasperDir) + 1, Len(fin.glob[i]) - Len(Ext))]

\* C18 (as claimed): the new top squash name is made from the highest existing
\* layer basename: with a layerfs-path configured that basename followed by
\* .custom, otherwise that basename with its first character replaced by the
\* next code point.
C18_NewTopName ==
    Applied("setup_rootfs") =>
        LET top == Highest(ExistingNames)
        IN IF fin.path # None THEN fout = top \o Custom
           ELSE /\ Len(fout) = Len(top)
                /\ ord(fout[1]) = ord(top[1]) + 1
                /\ Tail(fout) = Tail(top)

\* s without its trailing white space: the prefix of s that is empty or ends
\* in a character that is not white space, and is followed by white space only
Stripped(s) ==
    CHOOSE t \in {SubSeq(s, 1, n) : n \in 0..Len(s)} :
        /\ t = <<>> \/ t[Len(t)] \notin Whitespace
        /\ \A i \in (Len(t) + 1)..Len(s) : s[i] \in Whitespace

\* the places of line where a '---' starts
Delims(line) == {k \in 1..(Len(line) - 2) : SubSeq(line, k, k + 2) = Delim}

\* the line add_cmdline_arg is to write for line
Rewritten_line(line, arg, persist) ==
    IF Delims(line) = {} THEN line
    ELSE IF persist THEN Stripped(line) \o <<" ">> \o arg \o <<"\n">>
    ELSE LET k == CHOOSE k \in Delims(line) : \A m \in Delims(line) : k <= m
         IN Stripped(SubSeq(line, 1, k - 1)) \o <<" ">> \o arg \o <<" ">>
                \o SubSeq(line, k, Len(line))

\* C20: add_cmdline_arg(arg, persist) rewrites every existing boot-config
\* file and no other: each file keeps its number of lines; a line without
\* '---' is written back unchanged at its position; a line with '---' becomes,
\* with persist, its right-stripped text followed by ' <arg>' and a newline,
\* and without persist the right-stripped text before the first '---', then
\* ' <arg> ', then the first '---' and all that followed it.
C20_LinesRewritten ==
    Applied("add_cmdline_arg") =>
        /\ Len(fout) = Len(fin.files)
        /\ \A i \in 1..Len(fin.files) :
               /\ fout[i].exists = fin.files[i].exists
               /\ Len(fout[i].lines) = Len(fin.files[i].lines)
               /\ \A j \in 1..Len(fin.files[i].lines) :
                      fout[i].lines[j] =
                          IF fin.files[i].exists
                          THEN Rewritten_line(fin.files[i].lines[j], fin.arg,
                                              fin.persist)
                          ELSE fin.files[i].lines[j]

\* a workspace without grub.cfg whose txt.cfg holds a line without '---' and
\* then 'q---q', and whose parmfile.ubuntu holds 'q---q' and 'q  --- q': the
\* argument x goes before each '---', after a single space
C20_Witness ==
    /\ Applied("add_cmdline_arg")
    /\ ~fin.persist
    /\ fin.arg = <<"x">>
    /\ ~fin.files[1].exists
    /\ fin.files[2] = File(<<Plain, <<"q", "-", "-", "-", "q", "\n">>>>)
    /\ fout[2] = File(<<Plain,
                        <<"q", " ", "x", " ", "-", "-", "-", "q", "\n">>>>)
    /\ fin.files[3] = File(<<<<"q", "-", "-", "-", "q", "\n">>, Companion>>)
    /\ fout[3].lines[2] = <<"q", " ", "x", " ", "-", "-", "-", " ", "q", "\n">>

\* C19 (as claimed): after the rootfs repack hook has created the new top
\* layer <new>.squashfs for a pointer that came from the command line or from
\* the initrd, resolving the pointer again from the files the hook leaves, as
\* get_layerfs_path does, yields '<new>.squashfs'.
C19_PointerNamesNewLayer ==
    (Applied("_pre_repack") /\ fout.layerfs_loc \in {"CMDLINE", "INITRD"}) =>
        layerfs_path_loc(fout.files, fout.conf)[1] = fout.name \o Ext

\* C21: in in-place mode every emission command writes <source>.new; the
\* source is replaced by the rename only in in-place mode after repack has
\* returned True with no hook having raised; when main leaves its try block
\* with an exception, or repack returned False, the source is as it was.
C21_InplaceRenameOnlyWhenChanged ==
    /\ \A e \in emitted : image.dest = "inplace" => e.dest = "source.new"
    /\ renamed => (image.dest = "inplace" /\ result = "true" /\ hookRaised = 0
                   /\ emitted # {})
    /\ (pc = "teardown" /\ exc # "none") => ~renamed
    /\ result = "false" => ~renamed

\* an in-place run whose repack returned True: the source has been replaced
C21_Witness ==
    /\ pc = "exited"
    /\ image.dest = "inplace"
    /\ renamed
    /\ \E e \in emitted : e.dest = "source.new"

\* the commands of the emission path repack takes for the recorded fstype
EmissionPath ==
    IF image.fstype = "iso9660" THEN {"xorriso"} ELSE {"cp", "rsync"}

Commands == {e.cmd : e \in emitted}

\* C22: repack returns False exactly when the upper directory of the outer
\* overlay new/iso is empty once every hook has run, and then no emission
\* command has been invoked; otherwise it invokes the commands of one emission
\* path only, xorriso for fstype iso9660 and cp and rsync for any other, and
\* when it returns True all of them have been invoked.
C22_RepackResult ==
    /\ result = "false" => (unchanged(upper[NewIso]) /\ emitted = {})
    /\ result = "true" => (~unchanged(upper[NewIso]) /\ Commands = EmissionPath)
    /\ (RepackReturned /\ unchanged(upper[NewIso])) => result = "false"
    /\ emitted # {} => (/\ ~unchanged(upper[NewIso])
                        /\ Len(hookLog) = Len(hooks)
                        /\ Commands \subseteq EmissionPath)

\* repack of a vfat image with a changed outer overlay has returned True
C22_Witness ==
    /\ result = "true"
    /\ image.fstype = "vfat"
    /\ Commands = {"cp", "rsync"}

\* the nodes whose trial mount succeeds and shows .disk/info
LiveNodes == {i \in 1..Len(fin.devs) : fin.devs[i] = "live"}

\* C23: when find_livefs returns, it returns the first node of the
\* enumeration whose trial mount succeeds and shows .disk/info, nodes that do
\* not mount or show no marker being passed over; it returns whenever there is
\* such a node and no umount raises; when no node carries the marker it does
\* not return: it raises 'could not find live filesystem' (or the
\* CalledProcessError of a failed umount).
C23_FirstLiveNode ==
    Applied("find_livefs") =>
        /\ Ok(fout) => (/\ fout.ret \in LiveNodes
                        /\ \A j \in LiveNodes : fout.ret <= j)
        /\ (LiveNodes # {} /\ fout.failAt = 0) => Ok(fout)
        /\ LiveNodes = {} => ~Ok(fout)
        /\ (LiveNodes = {} /\ fout.failAt = 0) => fout.err = "other"

\* the second node is returned after a first one that does not mount
C23_Witness ==
    /\ Applied("find_livefs")
    /\ fin.devs = <<"nomount", "live">>
    /\ Ok(fout)
    /\ fout.ret = 2

\* C24: when find_livefs returns a node or raises 'could not find live
\* filesystem', the mount registry is the one it was entered with and no trial
\* mount is left mounted.
C24_RegistryAsAtEntry ==
    (Applied("find_livefs") /\ (Ok(fout) \/ fout.err = "other")) =>
        /\ fout.mounts = fin.mounts
        /\ fout.mounted = Range(fin.mounts)

\* find_livefs entered with two registered mounts made two trial mounts,
\* unmounted both and returned the second node
C24_Witness ==
    /\ Applied("find_livefs")
    /\ fin.mounts = <<OldIso, NewIso>>
    /\ fin.devs = <<"nomarker", "live">>
    /\ Ok(fout)
    /\ fout.steps = 2
    /\ Trial \in fout.exists

\* the directories of a lower, topmost first: of a list, those of its last
\* element first; of an overlay, its upper directory and then those of its
\* lowers
RECURSIVE TopFirst(_)
TopFirst(lower) ==
    CASE lower.kind \in {"str", "Mountpoint"} -> <<lower.path>>
      [] lower.kind = "OverlayMountpoint" ->
             <<lower.upperdir>> \o TopFirst(ListLower(lower.lowers))
      [] lower.kind = "list" ->
             IF lower.lowers = <<>> THEN <<>>
             ELSE TopFirst(lower.lowers[Len(lower.lowers)])
                      \o TopFirst(ListLower(SubSeq(lower.lowers, 1,
                                                   Len(lower.lowers) - 1)))

\* C25: the lowerdir add_overlay mounts with is the colon-joined list of the
\* directories of its lowers, topmost first: X for [X], Y:X for [X, Y], a
\* nested list in place and reversed the same way, a nested overlay as its
\* upper directory followed by its lowers.
C25_LowerdirTopmostFirst ==
    Applied("add_overlay") =>
        /\ split(fout, ":") = TopFirst(fin.lowers)
        /\ \A X, Y \in PlainLowers :
               /\ fin.lowers = ListLower(<<X>>) => fout = X.path
               /\ fin.lowers = ListLower(<<X, Y>>) =>
                      fout = Y.path \o <<":">> \o X.path

\* [x, overlay of [y, z] with upper u] gives u:z:y:x
C25_Witness ==
    /\ Applied("add_overlay")
    /\ fin.lowers = ListLower(<<StrLower(<<"x">>),
                                OverlayLower(<<MountLower(<<"y">>),
                                               StrLower(<<"z">>)>>, <<"u">>)>>)
    /\ fout = <<"u", ":", "z", ":", "y", ":", "x">>

\* repack has invoked the initrd hook
InitrdHookInvoked == \E i \in 1..Len(hookLog) : Invoked(i) = InitrdHook

\* the initrd file of the outer tree has been written anew
InitrdRewritten == <<"casper", "initrd">> \in upper[NewIso]

\* C26: once repack has invoked the initrd hook, the initrd file of the outer
\* tree has been rewritten if and only if something was written through the
\* initrd overlay, by an action or by a hook; before the hook runs it never is.
C26_InitrdRewrittenIffWritten ==
    /\ InitrdHookInvoked => (InitrdRewritten <=> ~unchanged(upper[NewInitrd]))
    /\ ~InitrdHookInvoked => ~InitrdRewritten

\* the initrd was unpacked and left alone, a layer was changed, and repack has
\* emitted an image without rewriting the initrd
C26_Witness ==
    /\ InitrdHookInvoked
    /\ NewInitrd \in Range(mounts)
    /\ unchanged(upper[NewInitrd])
    /\ result = "true"
    /\ ~InitrdRewritten

\* the place of hook h in the list of registered hooks, 0 when it is not there
Registered(h) ==
    IF h \in Range(hooks) THEN CHOOSE i \in 1..Len(hooks) : hooks[i] = h ELSE 0

\* the rootfs hook has written default-layer.conf through the initrd overlay
PointerInInitrd == <<"conf", "layer">> \in upper[NewInitrd]

\* C28: with the layer pointer taken from the initrd, the rootfs hook is
\* registered after the initrd hook whatever the order of the actions, so
\* repack invokes it before the initrd hook; once both have run, a rootfs hook
\* that wrote a new layer has written the pointer through the initrd overlay
\* and the initrd hook has rewritten the initrd of the outer tree after it.
C28_RootfsHookBeforeInitrdHook ==
    image.loc = "initrd" =>
        /\ Registered(RootfsHook) # 0 =>
               (/\ Registered(InitrdHook) # 0
                /\ Registered(InitrdHook) < Registered(RootfsHook))
        /\ \A i, j \in 1..Len(hookLog) :
               (Invoked(i) = RootfsHook /\ Invoked(j) = InitrdHook) => i < j
        /\ (InitrdHookInvoked /\ Registered(RootfsHook) # 0) =>
               \E i \in 1..Len(hookLog) : Invoked(i) = RootfsHook
        /\ (InitrdHookInvoked /\ <<"casper", "custom">> \in upper[NewIso]) =>
               (PointerInInitrd /\ InitrdRewritten)
        /\ PointerInInitrd => ~unchanged(upper[Rootfs])

\* unpack_initrd was the first action and setup_rootfs a later one; repack has
\* run both hooks and emitted an image whose initrd holds the new pointer
C28_Witness ==
    /\ image.loc = "initrd"
    /\ returns # <<>>
    /\ returns[1].fn = "unpack_initrd"
    /\ Registered(RootfsHook) # 0
    /\ InitrdHookInvoked
    /\ PointerInInitrd
    /\ InitrdRewritten
    /\ result = "true"


\* the places of the '--action' tokens in the arguments parse was given
ActionPlaces ==
    {i \in 1..Len(fin.raw_args) :
        Len(fin.raw_args[i]) >= 2 /\ SubSeq(fin.raw_args[i], 1, 2) = <<"-", "-">>}

\* the place of the k-th '--action' token
Place(k) ==
    CHOOSE i \in ActionPlaces : Cardinality({j \in ActionPlaces : j < i}) = k - 1

\* the arguments that follow the k-th '--action' token up to the next one
Following(k) ==
    SubSeq(fin.raw_args, Place(k) + 1,
           IF k < Cardinality(ActionPlaces) THEN Place(k + 1) - 1
           ELSE Len(fin.raw_args))

\* the values a call is given, in the order of its keywords, the value
\* collected for a List[str] parameter taken element by element
Given(call) ==
    concat([n \in 1..Len(call.kw) |->
               IF call.kw[n].value.kind = "list" THEN call.kw[n].value.val
               ELSE <<call.kw[n].value.val>>])

\* C27: cli.parse returns one call per '--action' token in argv order, each
\* with exactly the positional arguments that follow it up to the next '--'
\* token, bound to the parameters of the action by position (a bool parameter
\* to the truth value its argument spells); main invokes the calls in that
\* order, one at a time, and stops at the first that raises: no later call is
\* made and repack does not run.  Nothing is invoked when parse raises.
C27_CallsInOrder ==
    Applied("parse") =>
        /\ fout.exc = "none" =>
               /\ Len(fout.calls) = Cardinality(ActionPlaces)
               /\ \A k \in 1..Len(fout.calls) :
                      LET call == fout.calls[k]
                          param_list == ActionTable[call.func]
                          got == Given(call)
                          want == Following(k)
                      IN /\ <<"-", "-">> \o call.func = fin.raw_args[Place(k)]
                         /\ Len(got) = Len(want)
                         /\ \A n \in 1..Len(call.kw) :
                                call.kw[n].name = param_list[n].name
                         /\ \A n \in 1..Len(want) :
                                IF n <= Len(param_list)
                                       /\ param_list[n].annotation = "bool"
                                THEN got[n] =
                                         IF str_lower(want[n]) \in
                                                {<<"o", "n">>, <<"y", "e", "s">>,
                                                 <<"t", "r", "u", "e">>}
                                         THEN <<"True">> ELSE <<"False">>
                                ELSE got[n] = want[n]
        /\ IsPrefix(fout.invoked, fout.calls)
        /\ fout.raisedAt # 0 =>
               (Len(fout.invoked) = fout.raisedAt /\ ~fout.repacked)
        /\ fout.repacked => (fout.invoked = fout.calls /\ fout.raisedAt = 0)
        /\ fout.exc # "none" => (fout.invoked = <<>> /\ ~fout.repacked)

\* --edit-squashfs x Yes --rm: two calls, the first with squash_name x and
\* add_sys_mounts True; the first raised and the second was never made
C27_Witness ==
    /\ Applied("parse")
    /\ Len(fin.raw_args) = 4
    /\ fin.raw_args[2] = <<"x">>
    /\ fin.raw_args[3] = <<"Y", "e", "s">>
    /\ fin.raw_args[4] = <<"-", "-", "r", "m">>
    /\ Len(fout.calls) = 2
    /\ fout.calls[1].kw =
           <<Kw("squash_name", [kind |-> "str", val |-> <<"x">>]),
             Kw("add_sys_mounts", [kind |-> "bool", val |-> <<"True">>])>>
    /\ fout.calls[2].func = <<"r", "m">>
    /\ fout.raisedAt = 1
    /\ Len(fout.invoked) = 1


\* C29 (as claimed): at every point of the session every mountpoint that
\* add_mount or add_overlay mounted and that is still mounted is in the mount
\* registry; in particular a failed unmount in umount() does not drop a
\* still-mounted mountpoint from the registry.
C29_RegistryComplete == mounted \subseteq Range(mounts)


\* C30 (as claimed): the new top squash name setup_rootfs chooses differs
\* from every name get_squash_names returns for the same image, with and
\* without a layerfs-path, for every set of *.squashfs files and every order
\* glob yields them in.
C30_NewNameIsFresh ==
    Applied("setup_rootfs") => fout \notin Range(basenames(fin.path, fin.glob))


\* what the caller of run sees: the exception raised and, when there is none,
\* the CompletedProcess returned
Outcome(R) == [exc |-> R.exc, cp |-> R.cp]

\* C31 (as claimed): for every command, check value and keyword arguments
\* (stdout captured, stderr captured, both or neither), EditContext.run with
\* debug=True returns the same CompletedProcess or raises the same error as
\* with debug=False; debug only adds log output.
C31_DebugSameOutcome ==
    Applied("run") =>
        /\ Outcome(fout) =
               Outcome(EditContext_run(FALSE, fin.check, fin.kw, fin.proc))
        /\ ~fin.debug => fout.log = <<>>


\* in the session R a writable overlay is mounted at new/<n> and registered,
\* and the layer-repack hook of n is registered
OverlayInPlace(R, n) ==
    /\ NewSquash(n) \in R.mounted
    /\ NewSquash(n) \in Range(R.mounts)
    /\ SquashHook(NewSquash(n)) \in Range(R.hooks)

\* C32 (as claimed): edit_squashfs(n) returns a path only if a writable
\* overlay is mounted at new/<n> and its layer-repack hook is registered; in
\* particular, after a first call that failed while mounting the overlay, a
\* later call for the same name does not return the bare directory.
C32_ReturnsOnlyMountedOverlay ==
    Applied("edit_squashfs") =>
        /\ Ok(fout.first) => OverlayInPlace(fout.first, fin.name)
        /\ Ok(fout.again) => OverlayInPlace(fout.again, fin.name)

=============================================================================
